---- MODULE Spec2Model ----
(***************************************************************************)
(* Model of the calendar task synchronisation client of greenthumb:        *)
(*   - CalendarWebSocket (services/calendarApi.ts): the push channel with  *)
(*     its reconnect policy;                                               *)
(*   - the Calendar view's task cache (useState tasks) with its REST       *)
(*     handlers and its push-event handler.                                *)
(* Specifications:                                                         *)
(*   SpecChannel  the channel under any use of connect/disconnect/send;    *)
(*   SpecTraffic  the channel as the Calendar view drives it, with inbound *)
(*                frames handed to the view's onMessage;                   *)
(*   SpecCache    the cache under REST calls and pushes;                   *)
(*   SpecPush     the cache under pushes and one REST call at a time, with *)
(*                the history of the pushes about one task;                *)
(*   SpecRace     the cache under toggles and deletes in flight together;  *)
(*   SpecRetry    the channel with the automatic attempts counted;         *)
(*   SpecFrame    the channel under every method and socket event;         *)
(*   SpecRefresh  the cache under list calls and pushes;                   *)
(*   SpecForm     the Calendar view's create dialog;                       *)
(*   SpecLoad     fetchTasks and fetchDashboardData step by step;          *)
(*   SpecUpcoming fetchDashboardData over every task list and clock;       *)
(*   SpecUnread   the Dashboard's notification panel;                      *)
(*   SpecRest     the REST functions over what fetch can meet.             *)
(***************************************************************************)
EXTENDS Integers, Sequences, FiniteSets, Bags, TLC

\* ---------------------------------------------------------------- bounds
\* explicit connect() calls the consumer makes on one instance
MaxConnectCalls == 2
\* saturation of the history counter of consecutive failed attempts
FailCap == 7
\* task ids the server hands out
MaxId == 2
\* length of the task cache
MaxTasks == 2
\* REST calls in flight at the same time (one more when calls race)
MaxInFlight == 1
\* characters of a task title typed into the create form
MaxTitle == 2
\* clock readings a day is divided into (1 is midnight UTC)
TicksPerDay == 2
\* the latest clock reading, in ticks since midnight UTC of day 0
MaxNow == 3
\* the latest day a task is dated
MaxDate == 9
\* length of the task list the Dashboard is sent
MaxDashTasks == 2
\* notifications the Dashboard is sent
MaxNotifications == 2
\* notification calls in flight at the same time
MaxNotificationCalls == 2

\* ------------------------------------------------------ program constants
maxReconnectAttempts == 5

\* the days fetchDashboardData looks ahead
upcomingDays == 7

\* ------------------------------------------------------------------ state
VARIABLES
    ws,                 \* this.ws: 0 (null) or the socket it refers to
    sockets,            \* readyState of every WebSocket object with handlers
    reconnectAttempts,  \* this.reconnectAttempts
    timers,             \* pending setTimeout(() => this.connect()) callbacks
    connectCalls,       \* history: explicit connect() calls made so far
    discFrom,           \* history: channel state at the first disconnect()
                        \*          since the last explicit connect()
    failedRun,          \* history: consecutive failed connection attempts
    openedAfter,        \* history: failedRun at the latest socket open
    lastEvent,          \* history: the handler that ran last
    tasks,              \* Calendar: const [tasks, setTasks] = useState([])
    calls,              \* REST calls awaiting their response (a bag)
    handled,            \* history: what the latest step handled, when it is
                        \*          of a kind in Recorded
    recent,             \* history: the pushes handled last about one task id
    raced,              \* history: the completions of concurrent calls about
                        \*          one task id
    retry,              \* history: automatic attempts since the latest open
    overlap,            \* history: the push applied last while a list call
                        \*          was in flight
    isCreateDialogOpen, \* Calendar: useState(false)
    newTask,            \* Calendar: the create form, reduced to its title
    toast,              \* the toast shown last
    loading,            \* Calendar: useState(true)
    fetching,           \* Calendar: where fetchTasks stands
    weatherRecommendations, \* Calendar: whether the recommendations are set
    templateCategories, \* Calendar: whether the categories are set
    calendarTasks,      \* Dashboard: useState([])
    upcomingTasks,      \* Dashboard: useState([])
    dashboardLoading,   \* Dashboard: const [loading, setLoading] = useState(true)
    dashboardFetching,  \* Dashboard: where fetchDashboardData stands
    weatherSummary,     \* Dashboard: whether the weather data are set
    notifications,      \* Dashboard: useState([])
    unreadCount,        \* Dashboard: useState(0)
    notificationCalls,  \* Dashboard: notification calls awaiting their
                        \*            response (a bag)
    outcome,            \* history: what the latest run of each view's
                        \*          fetch met
    reply               \* the latest call of a REST function: what it was
                        \*          answered and how it ended

chanVars == <<ws, sockets, reconnectAttempts, timers, connectCalls, discFrom,
              failedRun, openedAfter, lastEvent>>

cacheVars == <<tasks, calls, handled>>

histVars == <<recent, raced, retry, overlap>>

\* the history but recent, but raced, but retry, but overlap
notRecent == <<raced, retry, overlap>>

notRaced == <<recent, retry, overlap>>

notRetry == <<recent, raced, overlap>>

notOverlap == <<recent, raced, retry>>

formVars == <<isCreateDialogOpen, newTask, toast>>

loadVars == <<loading, fetching, weatherRecommendations, templateCategories>>

dashVars == <<calendarTasks, upcomingTasks, dashboardLoading, dashboardFetching,
              weatherSummary, notifications, unreadCount, notificationCalls>>

\* the state of the views besides the task cache, with its history
viewVars == <<formVars, loadVars, dashVars, outcome, reply>>

\* the views but the create form
notForm == <<loadVars, dashVars, outcome, reply>>

dialogVars == <<isCreateDialogOpen, newTask>>

vars == <<ws, sockets, reconnectAttempts, timers, connectCalls, discFrom,
          failedRun, openedAfter, lastEvent, tasks, calls, handled, recent,
          raced, retry, overlap, isCreateDialogOpen, newTask, toast, loading, fetching,
          weatherRecommendations, templateCategories, calendarTasks,
          upcomingTasks, dashboardLoading, dashboardFetching, weatherSummary,
          notifications, unreadCount, notificationCalls, outcome, reply>>

\* One live socket or pending timer descends from each explicit connect(),
\* so MaxConnectCalls socket objects are enough to hold every live socket.
Sockets == 1 .. MaxConnectCalls

Live(s) == sockets[s] \in {"CONNECTING", "OPEN", "CLOSING"}

Min(a, b) == IF a < b THEN a ELSE b

\* the object a `new WebSocket(...)` yields: a slot holding no live socket
NewSocket == CHOOSE s \in Sockets : ~Live(s) /\ \A t \in Sockets : ~Live(t) => s <= t

\* isConnected()
isConnected == ws # 0 /\ sockets[ws] = "OPEN"

\* the channel state of spec section 4.1, read off the fields
ChannelState ==
    IF isConnected THEN "CONNECTED"
    ELSE IF \E s \in Sockets : sockets[s] = "CONNECTING" THEN "CONNECTING"
    ELSE IF timers > 0 THEN "RECONNECTING"
    ELSE "DISCONNECTED"

\* ---------------------------------------------------------------- methods
\* attemptReconnect() comparing with <= : one retry too many
attemptReconnectOffByOne(t) ==
    IF reconnectAttempts <= maxReconnectAttempts
    THEN /\ reconnectAttempts' = reconnectAttempts + 1
         /\ timers' = t + 1
    ELSE /\ reconnectAttempts' = reconnectAttempts
         /\ timers' = t

\* attemptReconnect(), t being the timers pending when it is called
attemptReconnect(t) ==
    IF reconnectAttempts < maxReconnectAttempts
    THEN /\ reconnectAttempts' = reconnectAttempts + 1
         /\ timers' = t + 1
    ELSE /\ reconnectAttempts' = reconnectAttempts
         /\ timers' = t

\* connect() that starts a fresh retry budget with every socket it creates
connectResets(throws, t) ==
    IF throws
    THEN /\ attemptReconnect(t)
         /\ failedRun' = Min(failedRun + 1, FailCap)
         /\ UNCHANGED <<ws, sockets>>
    ELSE /\ ws' = NewSocket
         /\ sockets' = [sockets EXCEPT ![NewSocket] = "CONNECTING"]
         /\ reconnectAttempts' = 0
         /\ timers' = t
         /\ failedRun' = failedRun

\* connect(): throws selects the catch branch of the constructor call
connect(throws, t) ==
    IF throws
    THEN /\ attemptReconnect(t)
         /\ failedRun' = Min(failedRun + 1, FailCap)
         /\ UNCHANGED <<ws, sockets>>
    ELSE /\ ws' = NewSocket
         /\ sockets' = [sockets EXCEPT ![NewSocket] = "CONNECTING"]
         /\ reconnectAttempts' = reconnectAttempts
         /\ timers' = t
         /\ failedRun' = failedRun

\* ws.onopen that forgets to reset the counter
onopenKeepsCounter ==
    reconnectAttempts' = reconnectAttempts

\* ws.onopen
onopen ==
    reconnectAttempts' = 0

\* ws.onclose
onclose ==
    attemptReconnect(timers)

\* disconnect()
disconnect ==
    IF ws # 0
    THEN /\ sockets' = [sockets EXCEPT
                          ![ws] = IF @ \in {"CONNECTING", "OPEN"} THEN "CLOSING" ELSE @]
         /\ ws' = 0
    ELSE UNCHANGED <<ws, sockets>>

\* the values a consumer hands to send(): one JSON.stringify serialises
\* and one it throws on (a cyclic object)
SendData == {"plain", "cyclic"}

\* send() without the readyState test
sendUnguarded(data) ==
    IF ws # 0
    THEN IF data = "cyclic" THEN "sendThrew" ELSE "sent"
    ELSE "warned"

\* send(data), by what it ends in: "sent" (ws.send called with the
\* serialised data), "sendThrew" (JSON.stringify threw out of send), or
\* "warned" (console.warn, nothing sent, nothing thrown)
send(data) ==
    IF ws # 0 /\ sockets[ws] = "OPEN"
    THEN IF data = "cyclic" THEN "sendThrew" ELSE "sent"
    ELSE "warned"

\* ---------------------------------------------------------------- actions
InitChannel ==
    /\ ws = 0
    /\ sockets = [s \in Sockets |-> "NONE"]
    /\ reconnectAttempts = 0
    /\ timers = 0
    /\ connectCalls = 0
    /\ discFrom = "none"
    /\ failedRun = 0
    /\ openedAfter = 0
    /\ lastEvent = "init"

\* the consumer calls connect()
Connect ==
    /\ connectCalls < MaxConnectCalls
    /\ \E throws \in BOOLEAN : connect(throws, timers)
    /\ connectCalls' = connectCalls + 1
    /\ discFrom' = "none"
    /\ lastEvent' = "connect"
    /\ UNCHANGED openedAfter

\* the consumer calls disconnect()
Disconnect ==
    /\ disconnect
    /\ discFrom' = IF discFrom = "none" THEN ChannelState ELSE discFrom
    /\ lastEvent' = "disconnect"
    /\ UNCHANGED <<reconnectAttempts, timers, connectCalls, failedRun, openedAfter>>

\* a reconnect timer fires and runs its callback
TimerFire ==
    /\ timers > 0
    /\ \E throws \in BOOLEAN : connect(throws, timers - 1)
    /\ lastEvent' = "timer"
    /\ UNCHANGED <<connectCalls, discFrom, openedAfter>>

\* the handshake of socket s succeeds: open event
SocketOpen(s) ==
    /\ sockets[s] = "CONNECTING"
    /\ sockets' = [sockets EXCEPT ![s] = "OPEN"]
    /\ onopen
    /\ failedRun' = 0
    /\ openedAfter' = failedRun
    /\ lastEvent' = "open"
    /\ UNCHANGED <<ws, timers, connectCalls, discFrom>>

\* the handshake of socket s fails: error event, then close event
SocketFail(s) ==
    /\ sockets[s] = "CONNECTING"
    /\ sockets' = [sockets EXCEPT ![s] = "CLOSED"]
    /\ onclose
    /\ failedRun' = Min(failedRun + 1, FailCap)
    /\ lastEvent' = "fail"
    /\ UNCHANGED <<ws, connectCalls, discFrom, openedAfter>>

\* an open socket is closed by the server or the network, or a socket that
\* disconnect() closed completes its closing handshake: close event
SocketClose(s) ==
    /\ sockets[s] \in {"OPEN", "CLOSING"}
    /\ sockets' = [sockets EXCEPT ![s] = "CLOSED"]
    /\ onclose
    /\ lastEvent' = "close"
    /\ UNCHANGED <<ws, connectCalls, discFrom, failedRun, openedAfter>>

\* the consumer calls send(data)
Send(data) ==
    /\ lastEvent' = send(data)
    /\ UNCHANGED <<ws, sockets, reconnectAttempts, timers, connectCalls, discFrom,
                   failedRun, openedAfter>>

\* an error event on socket s that no close event follows at once: ws.onerror
SocketError(s) ==
    /\ sockets[s] \in {"CONNECTING", "OPEN"}
    /\ lastEvent' = "error"
    /\ UNCHANGED <<ws, sockets, reconnectAttempts, timers, connectCalls, discFrom,
                   failedRun, openedAfter>>

\* the consumer calls isConnected()
IsConnected ==
    /\ lastEvent' = IF isConnected THEN "connected" ELSE "notConnected"
    /\ UNCHANGED <<ws, sockets, reconnectAttempts, timers, connectCalls, discFrom,
                   failedRun, openedAfter>>

NextChannel ==
    \/ Connect /\ UNCHANGED <<cacheVars, histVars, viewVars>>
    \/ Disconnect /\ UNCHANGED <<cacheVars, histVars, viewVars>>
    \/ TimerFire /\ UNCHANGED <<cacheVars, histVars, viewVars>>
    \/ \E s \in Sockets : SocketOpen(s) /\ UNCHANGED <<cacheVars, histVars, viewVars>>
    \/ \E s \in Sockets : SocketFail(s) /\ UNCHANGED <<cacheVars, histVars, viewVars>>
    \/ \E s \in Sockets : SocketClose(s) /\ UNCHANGED <<cacheVars, histVars, viewVars>>
    \/ \E data \in SendData : Send(data) /\ UNCHANGED <<cacheVars, histVars, viewVars>>

\* ------------------------------------------------------------ task cache
Ids == 1 .. MaxId

\* CalendarTask, reduced to its key and its mutable flag
CalendarTask == [id : Ids, completed : BOOLEAN]

NoTask == [id |-> 0, completed |-> FALSE]

\* the parsed push messages: { type, task } or { type, task_id }
Messages ==
    [type : {"task_updated", "task_created"}, task : CalendarTask, task_id : {0}]
        \cup [type : {"task_deleted"}, task : {NoTask}, task_id : Ids]
        \cup [type : {"ping"}, task : {NoTask}, task_id : {0}]

HasId(ts, id) == \E i \in DOMAIN ts : ts[i].id = id

\* onMessage whose task_updated branch inserts the task when it is absent
onMessageUpserts(prevTasks, data) ==
    IF data.type = "task_updated"
    THEN IF \E i \in DOMAIN prevTasks : prevTasks[i].id = data.task.id
         THEN [i \in DOMAIN prevTasks |->
                 IF prevTasks[i].id = data.task.id THEN data.task ELSE prevTasks[i]]
         ELSE Append(prevTasks, data.task)
    ELSE IF data.type = "task_created"
    THEN Append(prevTasks, data.task)
    ELSE IF data.type = "task_deleted"
    THEN SelectSeq(prevTasks, LAMBDA task : task.id # data.task_id)
    ELSE prevTasks

\* onMessage that empties the cache on a message of unknown type
onMessageResetsOnUnknown(prevTasks, data) ==
    IF data.type = "task_updated"
    THEN [i \in DOMAIN prevTasks |->
            IF prevTasks[i].id = data.task.id THEN data.task ELSE prevTasks[i]]
    ELSE IF data.type = "task_created"
    THEN Append(prevTasks, data.task)
    ELSE IF data.type = "task_deleted"
    THEN SelectSeq(prevTasks, LAMBDA task : task.id # data.task_id)
    ELSE <<>>

\* onMessage whose task_deleted branch drops the first cached task
onMessageDeletesHead(prevTasks, data) ==
    IF data.type = "task_updated"
    THEN [i \in DOMAIN prevTasks |->
            IF prevTasks[i].id = data.task.id THEN data.task ELSE prevTasks[i]]
    ELSE IF data.type = "task_created"
    THEN Append(prevTasks, data.task)
    ELSE IF data.type = "task_deleted"
    THEN IF prevTasks = <<>> THEN prevTasks ELSE Tail(prevTasks)
    ELSE prevTasks

\* onMessage whose task_created branch ignores the message
onMessageSkipsCreated(prevTasks, data) ==
    IF data.type = "task_updated"
    THEN [i \in DOMAIN prevTasks |->
            IF prevTasks[i].id = data.task.id THEN data.task ELSE prevTasks[i]]
    ELSE IF data.type = "task_created"
    THEN prevTasks
    ELSE IF data.type = "task_deleted"
    THEN SelectSeq(prevTasks, LAMBDA task : task.id # data.task_id)
    ELSE prevTasks

\* onMessage whose task_updated branch replaces the match and appends the
\* pushed task as well
onMessageAppendsUpdate(prevTasks, data) ==
    IF data.type = "task_updated"
    THEN Append([i \in DOMAIN prevTasks |->
                   IF prevTasks[i].id = data.task.id THEN data.task ELSE prevTasks[i]],
                data.task)
    ELSE IF data.type = "task_created"
    THEN Append(prevTasks, data.task)
    ELSE IF data.type = "task_deleted"
    THEN SelectSeq(prevTasks, LAMBDA task : task.id # data.task_id)
    ELSE prevTasks

\* onMessage whose task_updated branch keeps a cached task that is already
\* completed: the first write wins
onMessageFirstWins(prevTasks, data) ==
    IF data.type = "task_updated"
    THEN [i \in DOMAIN prevTasks |->
            IF prevTasks[i].id = data.task.id /\ ~prevTasks[i].completed
            THEN data.task ELSE prevTasks[i]]
    ELSE IF data.type = "task_created"
    THEN Append(prevTasks, data.task)
    ELSE IF data.type = "task_deleted"
    THEN SelectSeq(prevTasks, LAMBDA task : task.id # data.task_id)
    ELSE prevTasks

\* the onMessage callback the view gives to CalendarWebSocket, as the
\* setTasks updater it applies to the previous cache
onMessage(prevTasks, data) ==
    IF data.type = "task_updated"
    THEN [i \in DOMAIN prevTasks |->
            IF prevTasks[i].id = data.task.id THEN data.task ELSE prevTasks[i]]
    ELSE IF data.type = "task_created"
    THEN Append(prevTasks, data.task)
    ELSE IF data.type = "task_deleted"
    THEN SelectSeq(prevTasks, LAMBDA task : task.id # data.task_id)
    ELSE prevTasks

\* handleTaskToggle that writes the negation of the requested value after
\* the call resolved
toggleResolvedInverts(prevTasks, taskId, completed) ==
    [i \in DOMAIN prevTasks |->
        IF prevTasks[i].id = taskId
        THEN [prevTasks[i] EXCEPT !.completed = ~completed]
        ELSE prevTasks[i]]

\* handleTaskToggle that does not write the cache after the call resolved
toggleResolvedKeeps(prevTasks, taskId, completed) ==
    prevTasks

\* handleTaskToggle, after updateCalendarTask resolved
toggleResolved(prevTasks, taskId, completed) ==
    [i \in DOMAIN prevTasks |->
        IF prevTasks[i].id = taskId
        THEN [prevTasks[i] EXCEPT !.completed = completed]
        ELSE prevTasks[i]]

\* handleTaskToggle whose catch branch leaves the cache alone
toggleRejectedNoRevert(prevTasks, taskId, completed) ==
    prevTasks

\* handleTaskToggle whose catch branch puts the task back when it is gone
toggleRejectedReinserts(prevTasks, taskId, completed) ==
    IF \E i \in DOMAIN prevTasks : prevTasks[i].id = taskId
    THEN [i \in DOMAIN prevTasks |->
            IF prevTasks[i].id = taskId
            THEN [prevTasks[i] EXCEPT !.completed = ~completed]
            ELSE prevTasks[i]]
    ELSE Append(prevTasks, [id |-> taskId, completed |-> ~completed])

\* handleTaskToggle, catch branch ("Revert the change on error")
toggleRejected(prevTasks, taskId, completed) ==
    [i \in DOMAIN prevTasks |->
        IF prevTasks[i].id = taskId
        THEN [prevTasks[i] EXCEPT !.completed = ~completed]
        ELSE prevTasks[i]]

\* handleDeleteTask, after deleteCalendarTask resolved
deleteResolved(prevTasks, taskId) ==
    SelectSeq(prevTasks, LAMBDA task : task.id # taskId)

\* handleCreateTask, after createCalendarTask resolved
createResolved(prevTasks, createdTask) ==
    Append(prevTasks, createdTask)

\* the task lists a GET /calendar/tasks response can carry: ids are unique,
\* and the lists drawn here are the ones in ascending id order
ServerLists ==
    {l \in UNION {[1 .. n -> CalendarTask] : n \in 0 .. Min(MaxId, MaxTasks)} :
        \A i, j \in DOMAIN l : i < j => l[i].id < l[j].id}

NoCall == [op |-> "none", id |-> 0, completed |-> FALSE, pre |-> FALSE,
           touched |-> FALSE]

InFlight == BagCardinality(calls)

Pending == BagToSet(calls)

Issue(c) == calls' = calls (+) SetToBag({c})

Settle(c) == calls' = calls (-) SetToBag({c})

\* the kinds of handler runs the history variable keeps
Recorded == {"toggleFailed", "task_updated", "deleteFailed", "toggleOk"}

Quiet == [kind |-> "none", hit |-> FALSE]

\* history record of a handler run: its kind and whether it hit the case of
\* interest (see Settled and Push)
Done(kind, hit) ==
    IF kind \in Recorded THEN [kind |-> kind, hit |-> hit] ELSE Quiet

\* a settled call hits when a push overtook it and its task is still cached
Settled(kind, c) == Done(kind, c.touched /\ HasId(tasks', c.id))

\* the task id a push message is about
SubjectOf(data) ==
    IF data.type = "task_deleted" THEN data.task_id ELSE data.task.id

\* the push message changes a cached task with this id
Touches(data, id) ==
    \/ /\ data.type = "task_updated"
       /\ data.task.id = id
       /\ \E i \in DOMAIN tasks : tasks[i].id = id /\ tasks[i] # data.task
    \/ /\ data.type = "task_deleted"
       /\ data.task_id = id
       /\ HasId(tasks, id)

\* history: the toggle calls in flight for a task the message changes are
\* marked as overtaken by a push
Mark(c, data) ==
    IF c.op = "toggle" /\ Touches(data, c.id) THEN [c EXCEPT !.touched = TRUE] ELSE c

Count(c) == IF c \in Pending THEN calls[c] ELSE 0

Overtake(data) ==
    calls' = [m \in {Mark(c, data) : c \in Pending} |->
                IF m.touched /\ Mark([m EXCEPT !.touched = FALSE], data) = m
                THEN Count(m) + Count([m EXCEPT !.touched = FALSE])
                ELSE Count(m)]

InitCache ==
    /\ tasks = <<>>
    /\ calls = EmptyBag
    /\ handled = Quiet

\* fetchTasks: getCalendarTasks() is issued
FetchTasks ==
    /\ Issue([NoCall EXCEPT !.op = "list"])
    /\ handled' = Settled("list", NoCall)
    /\ UNCHANGED tasks

\* fetchTasks: the list arrives and replaces the cache
FetchTasksResolved(c, fetchedTasks) ==
    /\ c.op = "list"
    /\ tasks' = fetchedTasks
    /\ Settle(c)
    /\ handled' = Settled("listOk", c)

\* fetchTasks: catch branch
FetchTasksRejected(c) ==
    /\ c.op = "list"
    /\ Settle(c)
    /\ handled' = Settled("listFailed", c)
    /\ UNCHANGED tasks

\* the checkbox of the i-th rendered task is clicked: onCheckedChange gives
\* the negation of the rendered flag, and updateCalendarTask is issued
HandleTaskToggle(i) ==
    /\ Issue([NoCall EXCEPT !.op = "toggle", !.id = tasks[i].id,
                            !.completed = ~tasks[i].completed,
                            !.pre = tasks[i].completed])
    /\ handled' = Settled("toggle", NoCall)
    /\ UNCHANGED tasks

HandleTaskToggleResolved(c) ==
    /\ c.op = "toggle"
    /\ tasks' = toggleResolved(tasks, c.id, c.completed)
    /\ Settle(c)
    /\ handled' = Settled("toggleOk", c)

HandleTaskToggleRejected(c) ==
    /\ c.op = "toggle"
    /\ tasks' = toggleRejected(tasks, c.id, c.completed)
    /\ Settle(c)
    /\ handled' = Settled("toggleFailed", c)

\* the delete button of the i-th rendered task is clicked
HandleDeleteTask(i) ==
    /\ Issue([NoCall EXCEPT !.op = "delete", !.id = tasks[i].id])
    /\ handled' = Settled("delete", NoCall)
    /\ UNCHANGED tasks

HandleDeleteTaskResolved(c) ==
    /\ c.op = "delete"
    /\ tasks' = deleteResolved(tasks, c.id)
    /\ Settle(c)
    /\ handled' = Settled("deleteOk", c)

\* handleDeleteTask whose catch branch removes the task all the same
HandleDeleteTaskRejectedRemoves(c) ==
    /\ c.op = "delete"
    /\ tasks' = deleteResolved(tasks, c.id)
    /\ Settle(c)
    /\ handled' = Settled("deleteFailed", c)

\* handleDeleteTask, catch branch: a toast, the cache is not written
HandleDeleteTaskRejected(c) ==
    /\ c.op = "delete"
    /\ Settle(c)
    /\ handled' = Settled("deleteFailed", c)
    /\ UNCHANGED tasks

\* the create dialog is submitted with a non-blank title; the id is the one
\* the server assigns: an id no cached task and no other create holds
HandleCreateTask(id) ==
    /\ ~HasId(tasks, id)
    /\ \A c \in Pending : c.op = "create" => c.id # id
    /\ Issue([NoCall EXCEPT !.op = "create", !.id = id])
    /\ handled' = Settled("create", NoCall)
    /\ UNCHANGED tasks

HandleCreateTaskResolved(c) ==
    /\ c.op = "create"
    /\ Len(tasks) < MaxTasks
    /\ tasks' = createResolved(tasks, [id |-> c.id, completed |-> FALSE])
    /\ Settle(c)
    /\ handled' = Settled("createOk", c)

HandleCreateTaskRejected(c) ==
    /\ c.op = "create"
    /\ Settle(c)
    /\ handled' = Settled("createFailed", c)
    /\ UNCHANGED tasks

\* a push message is delivered to the view's onMessage callback
Push(data) ==
    /\ Len(onMessage(tasks, data)) <= MaxTasks
    /\ tasks' = onMessage(tasks, data)
    /\ Overtake(data)
    /\ handled' = Done(data.type, Touches(data, SubjectOf(data)))

NextCache ==
    \/ InFlight < MaxInFlight /\ FetchTasks /\ UNCHANGED <<chanVars, histVars, viewVars>>
    \/ \E c \in Pending, l \in ServerLists : FetchTasksResolved(c, l) /\ UNCHANGED <<chanVars, histVars, viewVars>>
    \/ \E c \in Pending : FetchTasksRejected(c) /\ UNCHANGED <<chanVars, histVars, viewVars>>
    \/ \E i \in DOMAIN tasks :
          InFlight < MaxInFlight /\ HandleTaskToggle(i) /\ UNCHANGED <<chanVars, histVars, viewVars>>
    \/ \E c \in Pending : HandleTaskToggleResolved(c) /\ UNCHANGED <<chanVars, histVars, viewVars>>
    \/ \E c \in Pending : HandleTaskToggleRejected(c) /\ UNCHANGED <<chanVars, histVars, viewVars>>
    \/ \E i \in DOMAIN tasks :
          InFlight < MaxInFlight /\ HandleDeleteTask(i) /\ UNCHANGED <<chanVars, histVars, viewVars>>
    \/ \E c \in Pending : HandleDeleteTaskResolved(c) /\ UNCHANGED <<chanVars, histVars, viewVars>>
    \/ \E c \in Pending : HandleDeleteTaskRejected(c) /\ UNCHANGED <<chanVars, histVars, viewVars>>
    \/ \E id \in Ids :
          InFlight < MaxInFlight /\ HandleCreateTask(id) /\ UNCHANGED <<chanVars, histVars, viewVars>>
    \/ \E c \in Pending : HandleCreateTaskResolved(c) /\ UNCHANGED <<chanVars, histVars, viewVars>>
    \/ \E c \in Pending : HandleCreateTaskRejected(c) /\ UNCHANGED <<chanVars, histVars, viewVars>>
    \/ \E data \in Messages : Push(data) /\ UNCHANGED <<chanVars, histVars, viewVars>>

\* ------------------------------------------- pushes about one task id
NoRecent == [kind |-> "none", id |-> 0, completed |-> FALSE, n |-> 0,
             hit |-> FALSE, same |-> FALSE, apart |-> FALSE]

\* history after a push: a task_updated or task_deleted opens a run about
\* its task id, a task_updated for the same id or a task_created after a
\* task_deleted for the same id is the second push of the run
AfterPush(data) ==
    IF data.type = "task_updated"
    THEN IF recent.kind = "updated" /\ recent.id = data.task.id
         THEN [recent EXCEPT !.completed = data.task.completed, !.n = 2,
                             !.same = (data.task.completed = recent.completed)]
         ELSE [NoRecent EXCEPT !.kind = "updated", !.id = data.task.id,
                               !.completed = data.task.completed, !.n = 1]
    ELSE IF data.type = "task_deleted"
    THEN [NoRecent EXCEPT !.kind = "deleted", !.id = data.task_id, !.n = 1,
                          !.hit = HasId(tasks, data.task_id)]
    ELSE IF data.type = "task_created"
    THEN IF recent.kind = "deleted" /\ recent.id = data.task.id
         THEN [recent EXCEPT !.kind = "recreated", !.n = 2,
                             !.completed = data.task.completed]
         ELSE NoRecent
    ELSE recent

\* history after the completion of a REST call about task id (0: the list):
\* a completion about the run's id or a list ends the run, a completion
\* about another id between the two pushes of the run is noted
AfterRest(id) ==
    IF recent.kind = "none" THEN recent
    ELSE IF id = 0 \/ id = recent.id THEN NoRecent
    ELSE [recent EXCEPT !.apart = @ \/ recent.n = 1]

InitPush == recent = NoRecent

\* the view handling pushes while it makes one REST call at a time
NextPush ==
    \/ calls = EmptyBag /\ FetchTasks /\ UNCHANGED <<chanVars, histVars, viewVars>>
    \/ \E c \in Pending, l \in ServerLists :
          FetchTasksResolved(c, l) /\ recent' = AfterRest(0) /\ UNCHANGED <<chanVars, notRecent, viewVars>>
    \/ \E c \in Pending :
          FetchTasksRejected(c) /\ recent' = AfterRest(0) /\ UNCHANGED <<chanVars, notRecent, viewVars>>
    \/ \E i \in DOMAIN tasks :
          calls = EmptyBag /\ HandleTaskToggle(i) /\ UNCHANGED <<chanVars, histVars, viewVars>>
    \/ \E c \in Pending :
          HandleTaskToggleResolved(c) /\ recent' = AfterRest(c.id) /\ UNCHANGED <<chanVars, notRecent, viewVars>>
    \/ \E c \in Pending :
          HandleTaskToggleRejected(c) /\ recent' = AfterRest(c.id) /\ UNCHANGED <<chanVars, notRecent, viewVars>>
    \/ \E i \in DOMAIN tasks :
          calls = EmptyBag /\ HandleDeleteTask(i) /\ UNCHANGED <<chanVars, histVars, viewVars>>
    \/ \E c \in Pending :
          HandleDeleteTaskResolved(c) /\ recent' = AfterRest(c.id) /\ UNCHANGED <<chanVars, notRecent, viewVars>>
    \/ \E c \in Pending :
          HandleDeleteTaskRejected(c) /\ recent' = AfterRest(c.id) /\ UNCHANGED <<chanVars, notRecent, viewVars>>
    \/ \E id \in Ids :
          calls = EmptyBag /\ HandleCreateTask(id) /\ UNCHANGED <<chanVars, histVars, viewVars>>
    \/ \E c \in Pending :
          HandleCreateTaskResolved(c) /\ recent' = AfterRest(c.id) /\ UNCHANGED <<chanVars, notRecent, viewVars>>
    \/ \E c \in Pending :
          HandleCreateTaskRejected(c) /\ recent' = AfterRest(c.id) /\ UNCHANGED <<chanVars, notRecent, viewVars>>
    \/ \E data \in Messages :
          Push(data) /\ recent' = AfterPush(data) /\ UNCHANGED <<chanVars, notRecent, viewVars>>

\* ------------------------------------------------------ inbound frames
NoMessage == [type |-> "none", task |-> NoTask, task_id |-> 0]

\* event.data of an inbound frame: the JSON text of a message, or text that
\* JSON.parse rejects
Frames == [json : {TRUE}, data : Messages] \cup {[json |-> FALSE, data |-> NoMessage]}

\* ws.onmessage that hands whatever it got to the callback
onmessageTrusting(frame) ==
    [called |-> TRUE, data |-> frame.data]

\* ws.onmessage: JSON.parse(event.data), then this.onMessage(data) unless
\* the parse threw into the catch branch
onmessage(frame) ==
    IF frame.json
    THEN [called |-> TRUE, data |-> frame.data]
    ELSE [called |-> FALSE, data |-> NoMessage]

\* the message types the view's onMessage has a branch for
KnownTypes == {"task_updated", "task_created", "task_deleted"}

\* a frame arrives on open socket s: message event; the history notes as
\* "ignored" a message that no branch of the callback takes
Message(s, frame) ==
    /\ sockets[s] = "OPEN"
    /\ IF onmessage(frame).called
       THEN /\ Push(onmessage(frame).data)
            /\ lastEvent' = IF onmessage(frame).data.type \in KnownTypes
                            THEN "message" ELSE "ignored"
       ELSE /\ lastEvent' = "parseError"
            /\ UNCHANGED cacheVars
    /\ UNCHANGED <<ws, sockets, reconnectAttempts, timers, connectCalls, discFrom,
                   failedRun, openedAfter>>

\* the channel as the Calendar view uses it (one connect() when the view
\* mounts, disconnect() when it unmounts), with inbound frames
NextTraffic ==
    \/ connectCalls = 0 /\ Connect /\ UNCHANGED <<cacheVars, histVars, viewVars>>
    \/ Disconnect /\ UNCHANGED <<cacheVars, histVars, viewVars>>
    \/ TimerFire /\ UNCHANGED <<cacheVars, histVars, viewVars>>
    \/ \E s \in Sockets : SocketOpen(s) /\ UNCHANGED <<cacheVars, histVars, viewVars>>
    \/ \E s \in Sockets : SocketFail(s) /\ UNCHANGED <<cacheVars, histVars, viewVars>>
    \/ \E s \in Sockets : SocketClose(s) /\ UNCHANGED <<cacheVars, histVars, viewVars>>
    \/ \E s \in Sockets, frame \in Frames : Message(s, frame) /\ UNCHANGED <<histVars, viewVars>>

\* --------------------------------------------- attempts between opens
NoRetry == [auto |-> 0, late |-> FALSE]

\* the retry budget is used up and nothing is connecting, open or scheduled
Exhausted ==
    /\ reconnectAttempts = maxReconnectAttempts
    /\ timers = 0
    /\ \A s \in Sockets : ~Live(s)

\* the frames that leave an empty cache empty
RetryFrames == {frame \in Frames : frame.json => frame.data.type # "task_created"}

InitRetry == retry = NoRetry

\* the channel with the count of the automatic attempts (timer callbacks
\* run) since the latest open
NextRetry ==
    \/ Connect /\ UNCHANGED <<cacheVars, histVars, viewVars>>
    \/ Disconnect /\ UNCHANGED <<cacheVars, histVars, viewVars>>
    \/ /\ TimerFire
       /\ retry' = [retry EXCEPT !.auto = Min(@ + 1, maxReconnectAttempts + 1)]
       /\ UNCHANGED <<cacheVars, notRetry, viewVars>>
    \/ \E s \in Sockets :
          /\ SocketOpen(s)
          /\ retry' = [retry EXCEPT !.auto = 0]
          /\ UNCHANGED <<cacheVars, notRetry, viewVars>>
    \/ \E s \in Sockets : SocketFail(s) /\ UNCHANGED <<cacheVars, histVars, viewVars>>
    \/ \E s \in Sockets : SocketClose(s) /\ UNCHANGED <<cacheVars, histVars, viewVars>>

\* the channel under every method and every socket event, with a note of
\* an explicit connect() made with the budget used up, kept until a socket
\* opens; the server announces no new task here, so that the cache stays
\* empty
NextFrame ==
    \/ /\ Connect
       /\ retry' = [retry EXCEPT !.late = Exhausted]
       /\ UNCHANGED <<cacheVars, notRetry, viewVars>>
    \/ Disconnect /\ UNCHANGED <<cacheVars, histVars, viewVars>>
    \/ TimerFire /\ UNCHANGED <<cacheVars, histVars, viewVars>>
    \/ \E s \in Sockets :
          /\ SocketOpen(s)
          /\ retry' = [retry EXCEPT !.late = FALSE]
          /\ UNCHANGED <<cacheVars, notRetry, viewVars>>
    \/ \E s \in Sockets : SocketFail(s) /\ UNCHANGED <<cacheVars, histVars, viewVars>>
    \/ \E s \in Sockets : SocketClose(s) /\ UNCHANGED <<cacheVars, histVars, viewVars>>
    \/ \E s \in Sockets : SocketError(s) /\ UNCHANGED <<cacheVars, histVars, viewVars>>
    \/ \E data \in SendData : Send(data) /\ UNCHANGED <<cacheVars, histVars, viewVars>>
    \/ IsConnected /\ UNCHANGED <<cacheVars, histVars, viewVars>>
    \/ \E s \in Sockets, frame \in RetryFrames : Message(s, frame) /\ UNCHANGED <<histVars, viewVars>>

\* ------------------------------------------- pushes during a list call
NoOverlap == [type |-> "none", id |-> 0, completed |-> FALSE, stored |-> FALSE]

ListPending == \E c \in Pending : c.op = "list"

\* history after a push: a push that changes the cache while a list call is
\* in flight is noted; a push with no list call in flight clears the note
AfterOverlap(data) ==
    IF ~ListPending THEN NoOverlap
    ELSE IF onMessage(tasks, data) = tasks THEN overlap
    ELSE [type |-> data.type, id |-> SubjectOf(data),
          completed |-> data.task.completed, stored |-> FALSE]

\* the task list shows what the noted push did
Reflects(ts, o) ==
    IF o.type = "task_deleted"
    THEN ~HasId(ts, o.id)
    ELSE \E i \in DOMAIN ts : ts[i] = [id |-> o.id, completed |-> o.completed]

InitRefresh == overlap = NoOverlap

\* the cache under list calls and pushes
NextRefresh ==
    \/ /\ InFlight < MaxInFlight
       /\ FetchTasks
       /\ overlap' = NoOverlap
       /\ UNCHANGED <<chanVars, notOverlap, viewVars>>
    \/ \E c \in Pending, l \in ServerLists :
          /\ FetchTasksResolved(c, l)
          /\ overlap' = IF overlap = NoOverlap THEN overlap
                         ELSE [overlap EXCEPT !.stored = TRUE]
          /\ UNCHANGED <<chanVars, notOverlap, viewVars>>
    \/ \E c \in Pending :
          /\ FetchTasksRejected(c)
          /\ overlap' = NoOverlap
          /\ UNCHANGED <<chanVars, notOverlap, viewVars>>
    \/ \E data \in Messages :
          /\ Push(data)
          /\ overlap' = AfterOverlap(data)
          /\ UNCHANGED <<chanVars, notOverlap, viewVars>>

\* ------------------------------------------------------- the create form
\* the characters of a title: a letter and a blank
Chars == {"a", " "}

Titles == UNION {[1 .. n -> Chars] : n \in 0 .. MaxTitle}

\* String.prototype.trim on the left end
RECURSIVE trimStart(_)
trimStart(str) ==
    IF str # <<>> /\ Head(str) = " " THEN trimStart(Tail(str)) ELSE str

\* String.prototype.trim on the right end
RECURSIVE trimEnd(_)
trimEnd(str) ==
    IF str # <<>> /\ str[Len(str)] = " "
    THEN trimEnd(SubSeq(str, 1, Len(str) - 1))
    ELSE str

\* String.prototype.trim
trim(str) == trimEnd(trimStart(str))

\* the form as useState and the resets leave it
EmptyForm == [title |-> <<>>]

NoToast == [description |-> "none", shown |-> 0]

\* toast({ description }): the toast shown last; shown alternates, so that
\* showing the same toast again is a step
Toast(description) ==
    toast' = [description |-> description, shown |-> 1 - toast.shown]

InitForm ==
    /\ isCreateDialogOpen = FALSE
    /\ newTask = EmptyForm
    /\ toast = NoToast

\* handleDialogClose(open): the dialog reports that it opened or closed
HandleDialogClose(open) ==
    /\ isCreateDialogOpen' = open
    /\ newTask' = IF ~open THEN EmptyForm ELSE newTask
    /\ UNCHANGED <<toast, cacheVars>>

\* the Cancel button of the dialog: setIsCreateDialogOpen(false)
CancelDialog ==
    /\ isCreateDialogOpen
    /\ isCreateDialogOpen' = FALSE
    /\ UNCHANGED <<newTask, toast, cacheVars>>

\* the title input of the dialog changes
SetTitle(title) ==
    /\ isCreateDialogOpen
    /\ newTask' = [newTask EXCEPT !.title = title]
    /\ UNCHANGED <<isCreateDialogOpen, toast, cacheVars>>

\* handleCreateTask without the title test
HandleCreateTaskFormUnguarded ==
    /\ isCreateDialogOpen
    /\ \E id \in Ids : InFlight < MaxInFlight /\ HandleCreateTask(id)
    /\ UNCHANGED formVars

\* handleCreateTask, up to its await: the Create button of the dialog
HandleCreateTaskForm ==
    /\ isCreateDialogOpen
    /\ IF trim(newTask.title) = <<>>
       THEN /\ Toast("Task title is required")
            /\ handled' = Quiet
            /\ UNCHANGED <<tasks, calls, isCreateDialogOpen, newTask>>
       ELSE /\ \E id \in Ids : InFlight < MaxInFlight /\ HandleCreateTask(id)
            /\ UNCHANGED formVars

\* handleCreateTask, after createCalendarTask resolved
HandleCreateTaskFormResolved(c) ==
    /\ HandleCreateTaskResolved(c)
    /\ isCreateDialogOpen' = FALSE
    /\ newTask' = EmptyForm
    /\ Toast("Task created successfully")

\* handleCreateTask, after createCalendarTask rejected
HandleCreateTaskFormRejected(c) ==
    /\ HandleCreateTaskRejected(c)
    /\ Toast("Failed to create task")
    /\ UNCHANGED <<isCreateDialogOpen, newTask>>

\* the Calendar view's create dialog
NextForm ==
    \/ \E open \in BOOLEAN : HandleDialogClose(open) /\ UNCHANGED <<chanVars, histVars, notForm>>
    \/ CancelDialog /\ UNCHANGED <<chanVars, histVars, notForm>>
    \/ \E title \in Titles : SetTitle(title) /\ UNCHANGED <<chanVars, histVars, notForm>>
    \/ HandleCreateTaskForm /\ UNCHANGED <<chanVars, histVars, notForm>>
    \/ \E c \in Pending : HandleCreateTaskFormResolved(c) /\ UNCHANGED <<chanVars, histVars, notForm>>
    \/ \E c \in Pending : HandleCreateTaskFormRejected(c) /\ UNCHANGED <<chanVars, histVars, notForm>>

\* ------------------------------------------------- fetchTasks, in full
InitLoad ==
    /\ loading = TRUE
    /\ fetching = "mount"
    /\ weatherRecommendations = "unset"
    /\ templateCategories = "unset"

\* fetchTasks is called (by the mount effect, or again once a run is
\* over): setLoading(true), getCalendarTasks() issued
FetchTasksStart ==
    /\ fetching \in {"mount", "done"}
    /\ FetchTasks
    /\ loading' = TRUE
    /\ fetching' = "tasks"
    /\ UNCHANGED <<weatherRecommendations, templateCategories, formVars>>

\* fetchTasks: the list arrives, setTasks, getWeatherRecommendations()
\* issued
FetchTasksStored(c, fetchedTasks) ==
    /\ fetching = "tasks"
    /\ FetchTasksResolved(c, fetchedTasks)
    /\ fetching' = "weather"
    /\ UNCHANGED <<loading, weatherRecommendations, templateCategories, formVars>>

\* fetchTasks: getCalendarTasks() rejected: outer catch, then finally
FetchTasksFailed(c) ==
    /\ fetching = "tasks"
    /\ FetchTasksRejected(c)
    /\ Toast("Failed to load calendar tasks")
    /\ loading' = FALSE
    /\ fetching' = "done"
    /\ UNCHANGED <<weatherRecommendations, templateCategories, isCreateDialogOpen,
                   newTask>>

\* fetchTasks: the recommendations arrive, getTemplateCategories() issued
WeatherResolved ==
    /\ fetching = "weather"
    /\ weatherRecommendations' = "set"
    /\ fetching' = "templates"
    /\ UNCHANGED <<loading, templateCategories, formVars, cacheVars>>

\* fetchTasks with the weather fetch in the outer try only
WeatherRejectedUncaught ==
    /\ fetching = "weather"
    /\ Toast("Failed to load calendar tasks")
    /\ loading' = FALSE
    /\ fetching' = "done"
    /\ UNCHANGED <<weatherRecommendations, templateCategories, isCreateDialogOpen,
                   newTask, cacheVars>>

\* fetchTasks: getWeatherRecommendations() rejected: inner catch, then
\* getTemplateCategories() issued
WeatherRejected ==
    /\ fetching = "weather"
    /\ fetching' = "templates"
    /\ UNCHANGED <<loading, weatherRecommendations, templateCategories, formVars,
                   cacheVars>>

\* fetchTasks: the categories arrive, then finally
TemplatesResolved ==
    /\ fetching = "templates"
    /\ templateCategories' = "set"
    /\ loading' = FALSE
    /\ fetching' = "done"
    /\ UNCHANGED <<weatherRecommendations, formVars, cacheVars>>

\* fetchTasks: getTemplateCategories() rejected: inner catch, then finally
TemplatesRejected ==
    /\ fetching = "templates"
    /\ loading' = FALSE
    /\ fetching' = "done"
    /\ UNCHANGED <<weatherRecommendations, templateCategories, formVars, cacheVars>>

\* ------------------------------------------------------------ Dashboard
\* the Dashboard's CalendarTask, reduced to its date (a day number, for a
\* YYYY-MM-DD string) and its completed flag
DashTask == [date : 0 .. MaxDate, completed : BOOLEAN]

DashLists == UNION {[1 .. n -> DashTask] : n \in 0 .. MaxDashTasks}

\* the clock readings new Date() yields
Clock == 0 .. MaxNow

\* new Date(task.date) of a date-only string: midnight UTC of that day
DateOf(date) == date * TicksPerDay

\* the filter of fetchDashboardData: today = new Date(), nextWeek = today
\* with setDate(getDate() + 7)
upcoming(fetched, now) ==
    SelectSeq(fetched, LAMBDA task :
        /\ DateOf(task.date) >= now
        /\ DateOf(task.date) <= now + upcomingDays * TicksPerDay
        /\ ~task.completed)

\* NotificationData, reduced to its id and its read flag
NotificationData == [id : 1 .. MaxNotifications, read : BOOLEAN]

Unread(ns) == Cardinality({i \in DOMAIN ns : ~ns[i].read})

\* NotificationResponse: notifications with unique ids and the count the
\* server sends with them
NotificationResponses ==
    {r \in [notifications : UNION {[1 .. n -> NotificationData] :
                                    n \in 0 .. MaxNotifications},
            unread_count : 0 .. MaxNotifications] :
        \A i, j \in DOMAIN r.notifications :
            i < j => r.notifications[i].id < r.notifications[j].id}

\* the responses whose count is the number of unread notifications sent
CountedResponses ==
    {r \in NotificationResponses : r.unread_count = Unread(r.notifications)}

NoNotificationCall == [op |-> "none", id |-> 0, read |-> FALSE]

InitDashboard ==
    /\ calendarTasks = <<>>
    /\ upcomingTasks = <<>>
    /\ dashboardLoading = TRUE
    /\ dashboardFetching = "mount"
    /\ weatherSummary = "unset"
    /\ notifications = <<>>
    /\ unreadCount = 0
    /\ notificationCalls = EmptyBag

\* the mount effect calls fetchDashboardData: setLoading(true),
\* getCalendarTasks() issued
DashboardMount ==
    /\ dashboardFetching = "mount"
    /\ dashboardLoading' = TRUE
    /\ dashboardFetching' = "tasks"
    /\ UNCHANGED <<calendarTasks, upcomingTasks, weatherSummary, notifications,
                   unreadCount, notificationCalls, toast>>

\* fetchDashboardData: the list arrives at clock reading now; filter,
\* setCalendarTasks, setUpcomingTasks, getWeatherRecommendations() issued
DashboardTasksResolved(fetched, now) ==
    /\ dashboardFetching = "tasks"
    /\ calendarTasks' = fetched
    /\ upcomingTasks' = upcoming(fetched, now)
    /\ dashboardFetching' = "weather"
    /\ UNCHANGED <<dashboardLoading, weatherSummary, notifications, unreadCount,
                   notificationCalls, toast>>

\* fetchDashboardData: getCalendarTasks() rejected: outer catch, finally
DashboardTasksRejected ==
    /\ dashboardFetching = "tasks"
    /\ Toast("Failed to load dashboard data")
    /\ dashboardLoading' = FALSE
    /\ dashboardFetching' = "done"
    /\ UNCHANGED <<calendarTasks, upcomingTasks, weatherSummary, notifications,
                   unreadCount, notificationCalls>>

\* fetchDashboardData: the weather data arrive, getNotifications() issued
DashboardWeatherResolved ==
    /\ dashboardFetching = "weather"
    /\ weatherSummary' = "set"
    /\ dashboardFetching' = "notifications"
    /\ UNCHANGED <<calendarTasks, upcomingTasks, dashboardLoading, notifications,
                   unreadCount, notificationCalls, toast>>

\* fetchDashboardData: getWeatherRecommendations() rejected: inner catch,
\* getNotifications() issued
DashboardWeatherRejected ==
    /\ dashboardFetching = "weather"
    /\ dashboardFetching' = "notifications"
    /\ UNCHANGED <<calendarTasks, upcomingTasks, dashboardLoading, weatherSummary,
                   notifications, unreadCount, notificationCalls, toast>>

\* fetchDashboardData: the notifications arrive, then finally
DashboardNotificationsResolved(response) ==
    /\ dashboardFetching = "notifications"
    /\ notifications' = response.notifications
    /\ unreadCount' = response.unread_count
    /\ dashboardLoading' = FALSE
    /\ dashboardFetching' = "done"
    /\ UNCHANGED <<calendarTasks, upcomingTasks, weatherSummary, notificationCalls,
                   toast>>

\* fetchDashboardData: getNotifications() rejected: inner catch, finally
DashboardNotificationsRejected ==
    /\ dashboardFetching = "notifications"
    /\ dashboardLoading' = FALSE
    /\ dashboardFetching' = "done"
    /\ UNCHANGED <<calendarTasks, upcomingTasks, weatherSummary, notifications,
                   unreadCount, notificationCalls, toast>>

\* ------------------------------------------------- the runs of the fetches
NoRun == [list |-> "none", secondary |-> FALSE, raised |-> FALSE,
          before |-> <<>>, fetched |-> <<>>, now |-> 0]

\* history of a run after a step of it: the list call resolved with
\* fetched at clock reading now, the list call rejected, a secondary fetch
\* resolved or rejected; raised notes a toast shown by the step
Listed(run, fetched, now) ==
    [run EXCEPT !.list = "ok", !.fetched = fetched, !.now = now,
                !.raised = @ \/ toast' # toast]

ListFailed(run) ==
    [run EXCEPT !.list = "failed", !.raised = @ \/ toast' # toast]

Secondary(run, rejected) ==
    [run EXCEPT !.secondary = @ \/ rejected, !.raised = @ \/ toast' # toast]

InitOutcome == outcome = [calendar |-> NoRun, dashboard |-> NoRun]

\* the task lists the Dashboard is sent where the dates do not matter
UndatedLists == {l \in DashLists : \A i \in DOMAIN l : l[i].date = 0}

\* the fetch of the view that is mounted, Calendar or Dashboard (they are
\* pages of one application: a behaviour follows one of them)
NextLoad ==
    \/ /\ dashboardFetching = "mount"
       /\ FetchTasksStart
       /\ outcome' = [outcome EXCEPT !.calendar = [NoRun EXCEPT !.before = tasks]]
       /\ UNCHANGED <<chanVars, histVars, dashVars, reply>>
    \/ \E c \in Pending, l \in ServerLists :
          /\ FetchTasksStored(c, l)
          /\ outcome' = [outcome EXCEPT !.calendar = Listed(@, l, 0)]
          /\ UNCHANGED <<chanVars, histVars, dashVars, reply>>
    \/ \E c \in Pending :
          /\ FetchTasksFailed(c)
          /\ outcome' = [outcome EXCEPT !.calendar = ListFailed(@)]
          /\ UNCHANGED <<chanVars, histVars, dashVars, reply>>
    \/ /\ WeatherResolved
       /\ outcome' = [outcome EXCEPT !.calendar = Secondary(@, FALSE)]
       /\ UNCHANGED <<chanVars, histVars, dashVars, reply>>
    \/ /\ WeatherRejected
       /\ outcome' = [outcome EXCEPT !.calendar = Secondary(@, TRUE)]
       /\ UNCHANGED <<chanVars, histVars, dashVars, reply>>
    \/ /\ TemplatesResolved
       /\ outcome' = [outcome EXCEPT !.calendar = Secondary(@, FALSE)]
       /\ UNCHANGED <<chanVars, histVars, dashVars, reply>>
    \/ /\ TemplatesRejected
       /\ outcome' = [outcome EXCEPT !.calendar = Secondary(@, TRUE)]
       /\ UNCHANGED <<chanVars, histVars, dashVars, reply>>
    \/ /\ fetching = "mount"
       /\ DashboardMount
       /\ outcome' = [outcome EXCEPT !.dashboard = [NoRun EXCEPT !.before = calendarTasks]]
       /\ UNCHANGED <<chanVars, cacheVars, histVars, dialogVars, loadVars, reply>>
    \/ \E l \in UndatedLists :
          /\ DashboardTasksResolved(l, 0)
          /\ outcome' = [outcome EXCEPT !.dashboard = Listed(@, l, 0)]
          /\ UNCHANGED <<chanVars, cacheVars, histVars, dialogVars, loadVars, reply>>
    \/ /\ DashboardTasksRejected
       /\ outcome' = [outcome EXCEPT !.dashboard = ListFailed(@)]
       /\ UNCHANGED <<chanVars, cacheVars, histVars, dialogVars, loadVars, reply>>
    \/ /\ DashboardWeatherResolved
       /\ outcome' = [outcome EXCEPT !.dashboard = Secondary(@, FALSE)]
       /\ UNCHANGED <<chanVars, cacheVars, histVars, dialogVars, loadVars, reply>>
    \/ /\ DashboardWeatherRejected
       /\ outcome' = [outcome EXCEPT !.dashboard = Secondary(@, TRUE)]
       /\ UNCHANGED <<chanVars, cacheVars, histVars, dialogVars, loadVars, reply>>
    \/ \E response \in CountedResponses :
          /\ DashboardNotificationsResolved(response)
          /\ outcome' = [outcome EXCEPT !.dashboard = Secondary(@, FALSE)]
          /\ UNCHANGED <<chanVars, cacheVars, histVars, dialogVars, loadVars, reply>>
    \/ /\ DashboardNotificationsRejected
       /\ outcome' = [outcome EXCEPT !.dashboard = Secondary(@, TRUE)]
       /\ UNCHANGED <<chanVars, cacheVars, histVars, dialogVars, loadVars, reply>>

\* ------------------------------------------------- the Dashboard's lists
\* the responses that carry no notification
NoNotifications == {r \in CountedResponses : r.notifications = <<>>}

\* fetchDashboardData over every task list and clock reading
NextUpcoming ==
    \/ /\ DashboardMount
       /\ outcome' = [outcome EXCEPT !.dashboard = [NoRun EXCEPT !.before = calendarTasks]]
       /\ UNCHANGED <<chanVars, cacheVars, histVars, dialogVars, loadVars, reply>>
    \/ \E l \in DashLists, now \in Clock :
          /\ DashboardTasksResolved(l, now)
          /\ outcome' = [outcome EXCEPT !.dashboard = Listed(@, l, now)]
          /\ UNCHANGED <<chanVars, cacheVars, histVars, dialogVars, loadVars, reply>>
    \/ /\ DashboardTasksRejected
       /\ outcome' = [outcome EXCEPT !.dashboard = ListFailed(@)]
       /\ UNCHANGED <<chanVars, cacheVars, histVars, dialogVars, loadVars, reply>>
    \/ /\ DashboardWeatherResolved
       /\ outcome' = [outcome EXCEPT !.dashboard = Secondary(@, FALSE)]
       /\ UNCHANGED <<chanVars, cacheVars, histVars, dialogVars, loadVars, reply>>
    \/ /\ DashboardWeatherRejected
       /\ outcome' = [outcome EXCEPT !.dashboard = Secondary(@, TRUE)]
       /\ UNCHANGED <<chanVars, cacheVars, histVars, dialogVars, loadVars, reply>>
    \/ \E response \in NoNotifications :
          /\ DashboardNotificationsResolved(response)
          /\ outcome' = [outcome EXCEPT !.dashboard = Secondary(@, FALSE)]
          /\ UNCHANGED <<chanVars, cacheVars, histVars, dialogVars, loadVars, reply>>
    \/ /\ DashboardNotificationsRejected
       /\ outcome' = [outcome EXCEPT !.dashboard = Secondary(@, TRUE)]
       /\ UNCHANGED <<chanVars, cacheVars, histVars, dialogVars, loadVars, reply>>

\* ------------------------------------------- the Dashboard's notifications
NotificationPending == BagToSet(notificationCalls)

IssueNotification(c) == notificationCalls' = notificationCalls (+) SetToBag({c})

SettleNotification(c) == notificationCalls' = notificationCalls (-) SetToBag({c})

\* Math.max(0, prev - 1)
decrement(prev) == IF prev - 1 > 0 THEN prev - 1 ELSE 0

\* the i-th rendered notification is clicked while it shows as unread:
\* markNotificationRead is issued (a click on one that shows as read does
\* nothing)
ClickNotification(i) ==
    /\ ~notifications[i].read
    /\ IssueNotification([NoNotificationCall EXCEPT !.op = "markRead",
                                                    !.id = notifications[i].id])
    /\ UNCHANGED <<calendarTasks, upcomingTasks, dashboardLoading, dashboardFetching,
                   weatherSummary, notifications, unreadCount, toast>>

\* markNotificationRead resolved
MarkReadResolved(c) ==
    /\ c.op = "markRead"
    /\ SettleNotification(c)
    /\ notifications' = [i \in DOMAIN notifications |->
                            IF notifications[i].id = c.id
                            THEN [notifications[i] EXCEPT !.read = TRUE]
                            ELSE notifications[i]]
    /\ unreadCount' = decrement(unreadCount)
    /\ UNCHANGED <<calendarTasks, upcomingTasks, dashboardLoading, dashboardFetching,
                   weatherSummary, toast>>

\* a notification call rejected: the catch branch logs
NotificationCallRejected(c) ==
    /\ SettleNotification(c)
    /\ UNCHANGED <<calendarTasks, upcomingTasks, dashboardLoading, dashboardFetching,
                   weatherSummary, notifications, unreadCount, toast>>

\* the "Mark all read" button, rendered while unreadCount > 0, is clicked
ClickMarkAllRead ==
    /\ unreadCount > 0
    /\ IssueNotification([NoNotificationCall EXCEPT !.op = "markAll"])
    /\ UNCHANGED <<calendarTasks, upcomingTasks, dashboardLoading, dashboardFetching,
                   weatherSummary, notifications, unreadCount, toast>>

\* markAllNotificationsRead resolved
MarkAllReadResolved(c) ==
    /\ c.op = "markAll"
    /\ SettleNotification(c)
    /\ notifications' = [i \in DOMAIN notifications |->
                            [notifications[i] EXCEPT !.read = TRUE]]
    /\ unreadCount' = 0
    /\ UNCHANGED <<calendarTasks, upcomingTasks, dashboardLoading, dashboardFetching,
                   weatherSummary, toast>>

\* the delete button of the i-th rendered notification is clicked:
\* deleteNotification is issued; the handler keeps the notification as
\* rendered
ClickDeleteNotification(i) ==
    /\ IssueNotification([NoNotificationCall EXCEPT !.op = "delete",
                                                    !.id = notifications[i].id,
                                                    !.read = notifications[i].read])
    /\ UNCHANGED <<calendarTasks, upcomingTasks, dashboardLoading, dashboardFetching,
                   weatherSummary, notifications, unreadCount, toast>>

\* deleteNotification resolved
DeleteNotificationResolved(c) ==
    /\ c.op = "delete"
    /\ SettleNotification(c)
    /\ notifications' = SelectSeq(notifications, LAMBDA n : n.id # c.id)
    /\ unreadCount' = IF ~c.read THEN decrement(unreadCount) ELSE unreadCount
    /\ UNCHANGED <<calendarTasks, upcomingTasks, dashboardLoading, dashboardFetching,
                   weatherSummary, toast>>

\* the Dashboard with its notification panel open; the task list it is
\* sent is empty
NextUnread ==
    \/ /\ DashboardMount
       /\ UNCHANGED <<chanVars, cacheVars, histVars, dialogVars, loadVars, outcome,
                       reply>>
    \/ /\ DashboardTasksResolved(<<>>, 0)
       /\ UNCHANGED <<chanVars, cacheVars, histVars, dialogVars, loadVars, outcome,
                       reply>>
    \/ /\ DashboardTasksRejected
       /\ UNCHANGED <<chanVars, cacheVars, histVars, dialogVars, loadVars, outcome,
                       reply>>
    \/ /\ DashboardWeatherResolved
       /\ UNCHANGED <<chanVars, cacheVars, histVars, dialogVars, loadVars, outcome,
                       reply>>
    \/ /\ DashboardWeatherRejected
       /\ UNCHANGED <<chanVars, cacheVars, histVars, dialogVars, loadVars, outcome,
                       reply>>
    \/ \E response \in CountedResponses :
          /\ DashboardNotificationsResolved(response)
          /\ UNCHANGED <<chanVars, cacheVars, histVars, dialogVars, loadVars, outcome,
                       reply>>
    \/ /\ DashboardNotificationsRejected
       /\ UNCHANGED <<chanVars, cacheVars, histVars, dialogVars, loadVars, outcome,
                       reply>>
    \/ \E i \in DOMAIN notifications :
          /\ BagCardinality(notificationCalls) < MaxNotificationCalls
          /\ ClickNotification(i)
          /\ UNCHANGED <<chanVars, cacheVars, histVars, dialogVars, loadVars, outcome,
                       reply>>
    \/ \E c \in NotificationPending :
          /\ MarkReadResolved(c)
          /\ UNCHANGED <<chanVars, cacheVars, histVars, dialogVars, loadVars, outcome,
                       reply>>
    \/ \E c \in NotificationPending :
          /\ NotificationCallRejected(c)
          /\ UNCHANGED <<chanVars, cacheVars, histVars, dialogVars, loadVars, outcome,
                       reply>>
    \/ /\ BagCardinality(notificationCalls) < MaxNotificationCalls
       /\ ClickMarkAllRead
       /\ UNCHANGED <<chanVars, cacheVars, histVars, dialogVars, loadVars, outcome,
                       reply>>
    \/ \E c \in NotificationPending :
          /\ MarkAllReadResolved(c)
          /\ UNCHANGED <<chanVars, cacheVars, histVars, dialogVars, loadVars, outcome,
                       reply>>
    \/ \E i \in DOMAIN notifications :
          /\ BagCardinality(notificationCalls) < MaxNotificationCalls
          /\ ClickDeleteNotification(i)
          /\ UNCHANGED <<chanVars, cacheVars, histVars, dialogVars, loadVars, outcome,
                       reply>>
    \/ \E c \in NotificationPending :
          /\ DeleteNotificationResolved(c)
          /\ UNCHANGED <<chanVars, cacheVars, histVars, dialogVars, loadVars, outcome,
                       reply>>

\* ------------------------------------------------------ the REST functions
\* getCalendarTasks, getCalendarTask, createCalendarTask,
\* updateCalendarTask, deleteCalendarTask, getUpcomingTasks
Operations == {"list", "get", "create", "update", "delete", "listUpcoming"}

\* the status codes drawn: both ends of 2xx, its neighbour 300, and errors
Statuses == {200, 204, 299, 300, 404, 500}

\* what fetch meets: a network failure, or a response with a status and a
\* body that is JSON (with or without a detail field) or is not
Exchanges == [network : {"up", "down"}, status : Statuses,
              json : BOOLEAN, detail : BOOLEAN]

\* response.ok
ok(status) == status >= 200 /\ status <= 299

Returned(value) == [result |-> "returned", value |-> value]

Threw(message) == [result |-> "threw", value |-> message]

\* a REST function whose catch branch logs and returns
restSwallows(op, x) ==
    IF x.network = "down" THEN Returned("undefined")
    ELSE IF ~ok(x.status) THEN Returned("undefined")
    ELSE IF op = "delete" THEN Returned("undefined")
    ELSE IF x.json THEN Returned("body")
    ELSE Returned("undefined")

\* a REST function, by how it ends: fetch rejects and the catch branch
\* throws the error on; the response is not ok and an Error with the
\* detail of the body, or with the status, is thrown; deleteCalendarTask
\* returns; the others return the parsed body, or throw when
\* response.json() rejects
rest(op, x) ==
    IF x.network = "down" THEN Threw("fetch failed")
    ELSE IF ~ok(x.status)
    THEN IF x.json /\ x.detail THEN Threw("detail") ELSE Threw("HTTP error! status")
    ELSE IF op = "delete" THEN Returned("undefined")
    ELSE IF x.json THEN Returned("body")
    ELSE Threw("body is not JSON")

NoReply == [op |-> "none",
            exchange |-> [network |-> "up", status |-> 200, json |-> TRUE,
                          detail |-> FALSE],
            end |-> Returned("undefined")]

InitRest == reply = NoReply

\* a REST function is called and ends
Call(op, x) ==
    reply' = [op |-> op, exchange |-> x, end |-> rest(op, x)]

NextRest ==
    \E op \in Operations, x \in Exchanges :
        /\ Call(op, x)
        /\ UNCHANGED <<chanVars, cacheVars, histVars, formVars, loadVars, dashVars,
                       outcome>>

\* --------------------------------------- concurrent calls about one task
\* REST calls in flight at the same time when the view's calls race
RaceCalls == MaxInFlight + 1

NoRace == [kind |-> "none", id |-> 0, completed |-> FALSE, op |-> "none"]

\* the cached flag of the task with this id
FlagOf(id) == (CHOOSE t \in {tasks[i] : i \in DOMAIN tasks} : t.id = id).completed

\* call c completes while another toggle of the same task, asking for the
\* other value, is still in flight, and c is the later click of the two (its
\* click saw the flag the cache holds now)
Overtakes(c) ==
    /\ HasId(tasks, c.id)
    /\ FlagOf(c.id) = c.pre
    /\ \E d \in Pending :
          d.op = "toggle" /\ d.id = c.id /\ d.completed # c.completed

\* another call about the task of call c is still in flight
Concurrent(c) ==
    \E d \in Pending : d.id = c.id /\ (d # c \/ calls[c] > 1)

\* history after a toggle succeeded
AfterToggleResolved(c) ==
    IF raced.kind = "overtaken" /\ c.id = raced.id /\ c.completed = raced.completed
    THEN [raced EXCEPT !.kind = "lastWon"]
    ELSE IF raced.kind \in {"gone", "lateFailure", "lateSuccess"} /\ c.id = raced.id
    THEN [raced EXCEPT !.kind = "lateSuccess", !.op = c.op]
    ELSE IF Overtakes(c)
    THEN [NoRace EXCEPT !.kind = "overtaken", !.id = c.id, !.completed = ~c.completed]
    ELSE IF c.id = raced.id THEN NoRace ELSE raced

\* history after a toggle or a delete failed
AfterRejected(c) ==
    IF raced.kind \in {"gone", "lateFailure", "lateSuccess"} /\ c.id = raced.id
    THEN [raced EXCEPT !.kind = "lateFailure", !.op = c.op]
    ELSE IF c.id = raced.id THEN NoRace ELSE raced

\* history after a delete succeeded
AfterDeleteResolved(c) ==
    IF HasId(tasks, c.id) /\ Concurrent(c)
    THEN [NoRace EXCEPT !.kind = "gone", !.id = c.id]
    ELSE IF c.id = raced.id /\ raced.kind \notin {"gone", "lateFailure", "lateSuccess"}
    THEN NoRace ELSE raced

InitRace == raced = NoRace

\* the view with toggles and deletes in flight at the same time
NextRace ==
    \/ InFlight < RaceCalls /\ FetchTasks /\ UNCHANGED <<chanVars, histVars, viewVars>>
    \/ \E c \in Pending, l \in ServerLists :
          FetchTasksResolved(c, l) /\ raced' = NoRace /\ UNCHANGED <<chanVars, notRaced, viewVars>>
    \/ \E c \in Pending :
          FetchTasksRejected(c) /\ UNCHANGED <<chanVars, histVars, viewVars>>
    \/ \E i \in DOMAIN tasks :
          InFlight < RaceCalls /\ HandleTaskToggle(i) /\ UNCHANGED <<chanVars, histVars, viewVars>>
    \/ \E c \in Pending :
          /\ HandleTaskToggleResolved(c)
          /\ raced' = AfterToggleResolved(c)
          /\ UNCHANGED <<chanVars, notRaced, viewVars>>
    \/ \E c \in Pending :
          HandleTaskToggleRejected(c) /\ raced' = AfterRejected(c) /\ UNCHANGED <<chanVars, notRaced, viewVars>>
    \/ \E i \in DOMAIN tasks :
          InFlight < RaceCalls /\ HandleDeleteTask(i) /\ UNCHANGED <<chanVars, histVars, viewVars>>
    \/ \E c \in Pending :
          /\ HandleDeleteTaskResolved(c)
          /\ raced' = AfterDeleteResolved(c)
          /\ UNCHANGED <<chanVars, notRaced, viewVars>>
    \/ \E c \in Pending :
          HandleDeleteTaskRejected(c) /\ raced' = AfterRejected(c) /\ UNCHANGED <<chanVars, notRaced, viewVars>>

Init == InitChannel /\ InitCache /\ InitPush /\ InitRace /\ InitRetry
        /\ InitRefresh /\ InitForm /\ InitLoad
        /\ InitDashboard /\ InitOutcome /\ InitRest

SpecChannel == Init /\ [][NextChannel]_vars

SpecCache == Init /\ [][NextCache]_vars

SpecPush == Init /\ [][NextPush]_vars

SpecRace == Init /\ [][NextRace]_vars

SpecTraffic == Init /\ [][NextTraffic]_vars

SpecRetry == Init /\ [][NextRetry]_vars

SpecFrame == Init /\ [][NextFrame]_vars

SpecRefresh == Init /\ [][NextRefresh]_vars

SpecForm == Init /\ [][NextForm]_vars

SpecLoad == Init /\ [][NextLoad]_vars

SpecUpcoming == Init /\ [][NextUpcoming]_vars

SpecUnread == Init /\ [][NextUnread]_vars

SpecRest == Init /\ [][NextRest]_vars

\* ------------------------------------------------- channel properties
\* no WebSocket object is created in the step
NoNewSocket ==
    \A s \in Sockets : sockets'[s] = "CONNECTING" => sockets[s] = "CONNECTING"

NoLiveSocket == \A s \in Sockets : ~Live(s)

\* C1: after a disconnect() made while a reconnect timer was pending, no
\* connection attempt happens until connect() is called explicitly: the
\* pending timer is cancelled, so it never fires and no socket is created.
C1_DisconnectCancelsPendingRetry ==
    [][(discFrom = "RECONNECTING" /\ discFrom' = "RECONNECTING")
          => (NoNewSocket /\ lastEvent' # "timer")]_vars

\* C2: after a disconnect() made while CONNECTED or CONNECTING, the close
\* event that disconnect() causes schedules no reconnect and no socket is
\* created until connect() is called explicitly.
C2_ExplicitDisconnectStopsRetries ==
    [][(discFrom \in {"CONNECTED", "CONNECTING"} /\ discFrom' = discFrom)
          => (timers' <= timers /\ NoNewSocket)]_vars

\* C3 (as stated): after exactly 5 consecutive failed connection attempts
\* nothing further is scheduled and the channel is DISCONNECTED.
C3_BoundAfterFiveFailures ==
    failedRun = maxReconnectAttempts
        => (ChannelState = "DISCONNECTED" /\ NoLiveSocket)

\* C3 (amended): the initial connect() plus 5 automatic retries are made;
\* after these 6 consecutive failures of an instance connected once nothing
\* is scheduled and the channel is DISCONNECTED; and whenever the retry
\* counter is at max, no step other than an explicit connect() schedules a
\* timer, and an idle channel stays idle.
C3_ReconnectBound ==
    /\ [](connectCalls = 1 /\ failedRun = maxReconnectAttempts + 1
            => (ChannelState = "DISCONNECTED" /\ NoLiveSocket))
    /\ [][(reconnectAttempts = maxReconnectAttempts /\ connectCalls' = connectCalls)
            => /\ timers' <= timers
               /\ (timers = 0 /\ NoLiveSocket) => (timers' = 0 /\ NoNewSocket)]_vars

\* witness of C3: six attempts in a row have failed on an instance that was
\* connected once, and the counter stands at max
C3_Witness ==
    /\ connectCalls = 1
    /\ failedRun = maxReconnectAttempts + 1
    /\ reconnectAttempts = maxReconnectAttempts
    /\ lastEvent = "fail"

C5_AtMostOneReconnectTimer ==
    timers <= 1

\* C19: send(data) calls ws.send only when this.ws exists and is OPEN; in
\* every other state it sends nothing, throws nothing and warns, and in no
\* state does it change the socket, the connection state, the retry counter
\* or the pending timers.
C19_SendOnlyWhenOpen ==
    [][\A data \in SendData : Send(data) =>
        /\ lastEvent' \in {"sent", "sendThrew"} => ChannelState = "CONNECTED"
        /\ ~(ws # 0 /\ sockets[ws] = "OPEN") => lastEvent' = "warned"
        /\ ChannelState' = ChannelState
        /\ UNCHANGED <<ws, sockets, reconnectAttempts, timers>>]_vars

\* witness of C19: send() was called while the socket exists but is still
\* connecting, and it warned
C19_Witness ==
    /\ lastEvent = "warned"
    /\ ws # 0
    /\ sockets[ws] = "CONNECTING"

\* C25: at most one socket of the instance is connecting or open at any
\* time (every such socket carries the instance's handlers).
C25_AtMostOneLiveSocket ==
    Cardinality({s \in Sockets : sockets[s] \in {"CONNECTING", "OPEN"}}) <= 1

\* C24: the retry counter goes up by exactly one whenever an automatic
\* attempt is scheduled, an attempt is scheduled only when the counter is
\* below max, the counter stays within 0 .. max, and no more than max
\* automatic attempts are made between two opens.
C24_CounterAndAttemptsBounded ==
    /\ [](reconnectAttempts \in 0 .. maxReconnectAttempts)
    /\ [](retry.auto <= maxReconnectAttempts)
    /\ [][(timers' > timers \/ (lastEvent' = "timer" /\ timers' = timers))
            => /\ reconnectAttempts < maxReconnectAttempts
               /\ reconnectAttempts' = reconnectAttempts + 1]_vars

\* C27: the retry counter changes only by the reset to 0 of a socket open
\* and by the +1 of attemptReconnect() below max; connect() creating its
\* socket, disconnect(), send(), isConnected(), message events and error
\* events leave it as it is; once connect() has been called with the
\* budget used up, no retry is scheduled until a socket opens.
C27_CounterFrame ==
    /\ [][(reconnectAttempts' # reconnectAttempts =>
             \/ lastEvent' = "open" /\ reconnectAttempts' = 0
             \/ /\ lastEvent' \in {"connect", "timer", "fail", "close"}
                /\ reconnectAttempts < maxReconnectAttempts
                /\ reconnectAttempts' = reconnectAttempts + 1)
          /\ (lastEvent' \in {"disconnect", "sent", "sendThrew", "warned",
                              "connected", "notConnected", "message",
                              "ignored", "parseError", "error"}
                => reconnectAttempts' = reconnectAttempts)
          /\ (lastEvent' \in {"connect", "timer"} /\ ws' # ws
                => reconnectAttempts' = reconnectAttempts)]_vars
    /\ [](retry.late => timers = 0 /\ reconnectAttempts = maxReconnectAttempts)

\* the socket of an explicit connect() made with the budget used up has
\* failed, and nothing is scheduled
C27_Witness ==
    /\ retry.late
    /\ lastEvent = "fail"
    /\ timers = 0
    /\ \A s \in Sockets : ~Live(s)

\* --------------------------------------------------- cache properties
\* C6: the task cache never holds two tasks with the same id.
C6_UniqueIds ==
    \A i, j \in DOMAIN tasks : tasks[i].id = tasks[j].id => i = j

\* C7: a task_created push appends the task when its id is not cached and
\* overwrites the cached copy when it is, so that afterwards the entries
\* with that id all equal the pushed task, the other entries are kept, and
\* applying the same message again changes nothing.
C7_CreatedAppendsOrOverwrites ==
    [][\A data \in Messages : (data.type = "task_created" /\ Push(data)) =>
        /\ IF HasId(tasks, data.task.id)
           THEN /\ Len(tasks') = Len(tasks)
                /\ \A i \in DOMAIN tasks :
                      tasks'[i] = IF tasks[i].id = data.task.id THEN data.task ELSE tasks[i]
           ELSE tasks' = Append(tasks, data.task)
        /\ onMessage(tasks', data) = tasks']_vars

\* C8 (as stated): a task_updated push replaces the cached task with the
\* same id and inserts the pushed task when no cached task has that id.
C8_UpdatedIsUpsert ==
    [][\A data \in Messages : (data.type = "task_updated" /\ Push(data)) =>
        IF HasId(tasks, data.task.id)
        THEN /\ Len(tasks') = Len(tasks)
             /\ \A i \in DOMAIN tasks :
                   tasks'[i] = IF tasks[i].id = data.task.id THEN data.task ELSE tasks[i]
        ELSE Len(tasks) < MaxTasks => HasId(tasks', data.task.id)]_vars

\* C8 (amended): a task_updated push replaces every cached task with the
\* same id by the pushed task and keeps the other entries and the order;
\* when no cached task has that id the cache is unchanged (nothing is
\* inserted).
C8_UpdatedReplacesOnly ==
    [][handled'.kind = "task_updated" =>
        \A data \in Messages : (data.type = "task_updated" /\ Push(data)) =>
            /\ Len(tasks') = Len(tasks)
            /\ \A i \in DOMAIN tasks :
                  /\ tasks[i].id = data.task.id => tasks'[i] = data.task
                  /\ tasks[i].id # data.task.id => tasks'[i] = tasks[i]
            /\ ~HasId(tasks, data.task.id)
                  => (tasks' = tasks /\ ~HasId(tasks', data.task.id))]_vars

\* witness of C8: a task_updated push has replaced a cached task that
\* differed from the pushed one, next to a task with another id
C8_Witness ==
    /\ handled = [kind |-> "task_updated", hit |-> TRUE]
    /\ Len(tasks) = 2
    /\ tasks[1].id # tasks[2].id

\* C9: once the failure of a toggle's update call has been handled, every
\* cached entry of that task has `completed` equal to the value the cache
\* held when the checkbox was clicked, whatever pushes and other
\* completions were handled while the call was in flight.
C9_OptimisticRevert ==
    [][\A c \in Pending : HandleTaskToggleRejected(c) =>
        \A i \in DOMAIN tasks' :
            tasks'[i].id = c.id => tasks'[i].completed = c.pre]_vars

\* witness of C9: a failed toggle has been handled for a task that is still
\* cached and that a push changed while the call was in flight
C9_Witness ==
    handled = [kind |-> "toggleFailed", hit |-> TRUE]

\* C10: handling the failure of an update call leaves the cache as it was
\* just before the failure was delivered.
C10_UpdateFailureLeavesCache ==
    [][handled'.kind = "toggleFailed" => tasks' = tasks]_vars

\* C11: a create or delete call changes the cache only when its response
\* has arrived and is a success: issuing the call leaves the cache as it is,
\* a failure leaves the cache as it is, a successful create appends exactly
\* the returned task and a successful delete removes exactly the entries
\* with the deleted id.
C11_CreateDeleteFailureLeavesCache ==
    [][/\ \A i \in DOMAIN tasks : HandleDeleteTask(i) => tasks' = tasks
       /\ \A id \in Ids : HandleCreateTask(id) => tasks' = tasks
       /\ \A c \in Pending :
            /\ HandleDeleteTaskRejected(c) => tasks' = tasks
            /\ HandleCreateTaskRejected(c) => tasks' = tasks
            /\ HandleCreateTaskResolved(c) =>
                  /\ Len(tasks') = Len(tasks) + 1
                  /\ tasks'[Len(tasks')].id = c.id
                  /\ \A i \in DOMAIN tasks : tasks'[i] = tasks[i]
            /\ HandleDeleteTaskResolved(c) =>
                  /\ ~HasId(tasks', c.id)
                  /\ Len(tasks') = Cardinality({i \in DOMAIN tasks : tasks[i].id # c.id})
                  /\ \A i \in DOMAIN tasks : tasks[i].id # c.id =>
                        tasks'[Cardinality({j \in 1 .. i : tasks[j].id # c.id})] = tasks[i]]_vars

\* witness of C11: the failure of a delete call has been handled and the
\* cache still holds tasks
C11_Witness ==
    /\ handled.kind = "deleteFailed"
    /\ Len(tasks) > 0

\* C12: a toggle is settled by the step that handles the resolution of its
\* update call: the call is no longer pending, and every cached entry of the
\* task holds the requested value when the call succeeded and the value the
\* cache held at the click when it failed.
C12_ToggleSettledAtResolution ==
    [][\A c \in Pending :
        /\ HandleTaskToggleResolved(c) =>
              /\ BagCardinality(calls') = BagCardinality(calls) - 1
              /\ \A i \in DOMAIN tasks' :
                    tasks'[i].id = c.id => tasks'[i].completed = c.completed
        /\ HandleTaskToggleRejected(c) =>
              /\ BagCardinality(calls') = BagCardinality(calls) - 1
              /\ \A i \in DOMAIN tasks' :
                    tasks'[i].id = c.id => tasks'[i].completed = c.pre]_vars

\* witness of C12: the success of a toggle has been handled for a task that
\* is still cached and that a push changed while the call was in flight
C12_Witness ==
    handled = [kind |-> "toggleOk", hit |-> TRUE]

\* ---------------------------------------------------- push sequences
\* the position task i of the cache takes once the tasks with this id are
\* taken out
RankWithout(id, i) == Cardinality({j \in 1 .. i : tasks[j].id # id})

\* C13: a task_deleted push removes the cached entries with the carried id;
\* the other entries stay, in their order; when no cached task has the id
\* the cache is unchanged.
C13_DeletedRemovesMatch ==
    [][\A data \in Messages : (data.type = "task_deleted" /\ Push(data)) =>
        /\ ~HasId(tasks', data.task_id)
        /\ Len(tasks') = RankWithout(data.task_id, Len(tasks))
        /\ \A i \in DOMAIN tasks :
              tasks[i].id # data.task_id
                  => tasks'[RankWithout(data.task_id, i)] = tasks[i]
        /\ ~HasId(tasks, data.task_id) => tasks' = tasks]_vars

\* witness of C13: a task_deleted push has removed a cached task and left
\* another task in the cache
C13_Witness ==
    /\ recent.kind = "deleted"
    /\ recent.hit
    /\ Len(tasks) > 0

\* C14: when a task_created push for an id is handled after a task_deleted
\* push for the same id, the cache holds the created task: the event that
\* arrived last wins.
C14_CreateAfterDelete ==
    recent.kind = "recreated"
        => \E i \in DOMAIN tasks :
              tasks[i] = [id |-> recent.id, completed |-> recent.completed]

\* witness of C14: task_deleted removed a cached task, then task_created for
\* the same id was handled
C14_Witness ==
    /\ recent.kind = "recreated"
    /\ recent.hit

\* C15: handling a task_updated push a second time with the same payload
\* leaves the cache as the first time left it, whether or not the id is
\* cached: the second of two such pushes changes nothing, and so does
\* applying the handler again to the cache it produced.
C15_UpdateIdempotent ==
    [][\A data \in Messages : (data.type = "task_updated" /\ Push(data)) =>
        /\ onMessage(tasks', data) = tasks'
        /\ (/\ recent.kind = "updated"
            /\ recent.id = data.task.id
            /\ recent.completed = data.task.completed) => tasks' = tasks]_vars

\* witness of C15: a task_updated push for a cached task has been handled
\* twice with the same payload
C15_Witness ==
    /\ recent.kind = "updated"
    /\ recent.n = 2
    /\ recent.same
    /\ HasId(tasks, recent.id)

\* C16 (as stated): after two task_updated pushes for the same id, with REST
\* completions for other ids in between or not, the cache holds the
\* task carried by the second push.
C16_LastUpdateWins ==
    (recent.kind = "updated" /\ recent.n = 2)
        => /\ HasId(tasks, recent.id)
           /\ \A i \in DOMAIN tasks :
                 tasks[i].id = recent.id => tasks[i].completed = recent.completed

\* C16 (amended): pushes are applied in arrival order; after two
\* task_updated pushes for the same id, with REST completions for other ids
\* in between or not, every cached entry of that id is the task carried by
\* the second push; when the id is not cached the pushes insert nothing.
C16_LastUpdateWinsIfCached ==
    /\ [](recent.kind = "updated" /\ recent.n = 2
            => \A i \in DOMAIN tasks :
                  tasks[i].id = recent.id => tasks[i].completed = recent.completed)
    /\ [][\A data \in Messages :
            (data.type = "task_updated" /\ Push(data) /\ ~HasId(tasks, data.task.id))
                => tasks' = tasks]_vars

\* witness of C16: two task_updated pushes with different payloads for a
\* cached task, a REST completion for another id handled between them
C16_Witness ==
    /\ recent.kind = "updated"
    /\ recent.n = 2
    /\ ~recent.same
    /\ recent.apart
    /\ HasId(tasks, recent.id)

\* ------------------------------------------------------ racing calls
\* C17: with several toggles of one task in flight, each success writes the
\* value its own call requested, so the cache holds the value of the
\* response that arrived last: after a later click's response overtook an
\* earlier click's response asking for the other value, and the earlier
\* one then arrived, the cached flag is the earlier click's value.
C17_LastCompletedWins ==
    /\ [][\A c \in Pending : HandleTaskToggleResolved(c) =>
            \A i \in DOMAIN tasks' :
                tasks'[i].id = c.id => tasks'[i].completed = c.completed]_vars
    /\ [](raced.kind = "lastWon"
            => \A i \in DOMAIN tasks :
                  tasks[i].id = raced.id => tasks[i].completed = raced.completed)

\* witness of C17: two toggles of one task asking for different values were
\* in flight, the later click's success arrived first and the earlier
\* click's success arrived last; the task is cached
C17_Witness ==
    /\ raced.kind = "lastWon"
    /\ HasId(tasks, raced.id)

\* C18: once a successful delete has removed a task while other calls about
\* it were in flight, the late completions of those calls (a toggle or a
\* delete failing with NotFound, a toggle succeeding late) do not put the
\* task back, and the view's operations can still be started.
C18_LateCompletionAfterDelete ==
    raced.kind \in {"gone", "lateFailure", "lateSuccess"}
        => /\ ~HasId(tasks, raced.id)
           /\ ENABLED FetchTasks
           /\ ENABLED HandleCreateTask(raced.id)
           /\ \A i \in DOMAIN tasks :
                 ENABLED HandleTaskToggle(i) /\ ENABLED HandleDeleteTask(i)

\* witness of C18: a toggle failed after a concurrent delete of its task had
\* succeeded, while another task is cached
C18_Witness ==
    /\ raced.kind = "lateFailure"
    /\ raced.op = "toggle"
    /\ Len(tasks) > 0

\* --------------------------------------------------- inbound frames
\* C26: once fetchTasks has stored the response of a list call, the cache
\* still shows the push that was applied last while that call was in
\* flight: the task it created or updated is cached as pushed, the task it
\* deleted is absent.
C26_PushSurvivesRefresh ==
    overlap.stored => Reflects(tasks, overlap)

\* C29: while the title of the form is empty or all blanks no create
\* request is issued, and handleCreateTask run on such a title (the step
\* that shows "Task title is required") leaves the task cache, the calls
\* in flight, the dialog-open flag and the form as they are.
C29_BlankTitleRejected ==
    [][/\ trim(newTask.title) = <<>> =>
            \A c \in BagToSet(calls') : c.op = "create" => c \in Pending
       /\ (toast' # toast /\ toast'.description = "Task title is required") =>
            /\ trim(newTask.title) = <<>>
            /\ UNCHANGED <<tasks, calls, isCreateDialogOpen, newTask>>]_vars

\* handleCreateTask has just run on a title of blanks only
C29_Witness ==
    /\ toast.description = "Task title is required"
    /\ newTask.title # <<>>
    /\ trim(newTask.title) = <<>>
    /\ isCreateDialogOpen
    /\ tasks # <<>>

\* C30: in a run of fetchTasks or fetchDashboardData a weather, template or
\* notification fetch that fails after the task list arrived leaves the
\* fetched list stored and shows no error; a task-list fetch that fails
\* leaves the tasks as they were; when the run is over the loading flag is
\* false.
C30_SecondaryFailuresIsolated ==
    /\ fetching = "done" => ~loading
    /\ dashboardFetching = "done" => ~dashboardLoading
    /\ outcome.calendar.list = "ok" /\ outcome.calendar.secondary =>
          tasks = outcome.calendar.fetched /\ ~outcome.calendar.raised
    /\ outcome.dashboard.list = "ok" /\ outcome.dashboard.secondary =>
          calendarTasks = outcome.dashboard.fetched /\ ~outcome.dashboard.raised
    /\ outcome.calendar.list = "failed" => tasks = outcome.calendar.before
    /\ outcome.dashboard.list = "failed" =>
          calendarTasks = outcome.dashboard.before

\* a run of fetchTasks over a filled cache is over: the list arrived, the
\* weather fetch failed
C30_Witness ==
    /\ fetching = "done"
    /\ outcome.calendar.list = "ok"
    /\ outcome.calendar.secondary
    /\ outcome.calendar.before # <<>>
    /\ tasks # <<>>
    /\ weatherRecommendations = "unset"
    /\ templateCategories = "set"

\* C22: the upcoming tasks are exactly the fetched tasks dated from today,
\* the day of the clock reading, to today + 7, both days included; stated
\* of the fetched lists that hold no completed task (the filter drops a
\* completed task whatever its date).
C22_UpcomingWindow ==
    /\ outcome.dashboard.list = "ok"
    /\ \A i \in DOMAIN calendarTasks : ~calendarTasks[i].completed
    => upcomingTasks =
           SelectSeq(calendarTasks, LAMBDA task :
               /\ task.date >= outcome.dashboard.now \div TicksPerDay
               /\ task.date <= outcome.dashboard.now \div TicksPerDay + upcomingDays)

\* C28: the notifications having arrived with a count equal to the number
\* of unread ones, unreadCount is the number of unread notifications after
\* every sequence and interleaving of mark-read, mark-all-read and delete
\* actions, two actions on one unread notification in flight together
\* included, and it is never negative.
C28_UnreadCountExact ==
    /\ unreadCount >= 0
    /\ unreadCount = Unread(notifications)

\* C23: a calendar REST function that met a network failure or a status
\* outside 200 .. 299 ended by throwing: it returned nothing to its caller.
C23_FailuresPropagate ==
    /\ reply.op # "none"
    /\ \/ reply.exchange.network = "down"
       \/ reply.exchange.status < 200
       \/ reply.exchange.status > 299
    => reply.end.result = "threw"

\* deleteCalendarTask was answered 404 with a body that is not JSON
C23_Witness ==
    /\ reply.op = "delete"
    /\ reply.exchange.network = "up"
    /\ reply.exchange.status = 404
    /\ ~reply.exchange.json
    /\ reply.end = Threw("HTTP error! status")

\* C20: a frame that fails to parse, arriving on an open socket, changes
\* nothing: the socket stays open, this.ws, the retry counter, the pending
\* timers and the cache are as before, the onMessage callback is not
\* called, and the handler returns after logging the error.
C20_MalformedMessageTolerated ==
    [][\A s \in Sockets : \A frame \in Frames :
        (~frame.json /\ Message(s, frame)) =>
            /\ lastEvent' = "parseError"
            /\ sockets'[s] = "OPEN"
            /\ ChannelState' = ChannelState
            /\ UNCHANGED <<ws, sockets, reconnectAttempts, timers, tasks, calls>>]_vars

\* witness of C20: an unparsable frame has been handled while the channel
\* is connected and the cache holds tasks
C20_Witness ==
    /\ lastEvent = "parseError"
    /\ isConnected
    /\ Len(tasks) > 0

\* C21: a push message of a type other than task_created, task_updated and
\* task_deleted, arriving on an open socket, is handed to the callback and
\* changes nothing: the cache, the calls in flight, the sockets, this.ws,
\* the connection state, the retry counter and the timers are as before,
\* and no error is logged.
C21_UnknownTypeIgnored ==
    [][\A s \in Sockets : \A frame \in Frames :
        (frame.json /\ frame.data.type \notin KnownTypes /\ Message(s, frame)) =>
            /\ lastEvent' # "parseError"
            /\ ChannelState' = ChannelState
            /\ UNCHANGED <<ws, sockets, reconnectAttempts, timers, tasks, calls>>]_vars

\* witness of C21: a message of unknown type has been handled while the
\* channel is connected and the cache holds tasks
C21_Witness ==
    /\ lastEvent = "ignored"
    /\ isConnected
    /\ Len(tasks) > 0

====
